---------------------------- MODULE Spec2Model ----------------------------
(***************************************************************************)
(* piet-direct2d/src/font_loading.rs: the DirectWrite custom font          *)
(* collection (collection loader, file enumerator, font file, file loader, *)
(* file stream) as a state machine driven by an external caller.           *)
(*                                                                         *)
(* Conventions                                                             *)
(*   - a buffer (Rc<[u8]>) is an address into heap; heap[a] is its bytes;  *)
(*   - Option<T> is a sequence: <<>> is None, <<x>> is Some(x);            *)
(*   - Rust indices are 0-based, TLA+ sequences 1-based: v.get(i) reads    *)
(*     v[i + 1];                                                           *)
(*   - u32 and u64 values are little-endian sequences of 16-bit limbs      *)
(*     (2 and 4 limbs), so that arithmetic keeps its width;                *)
(*   - a Rust panic inside a COM method ends the process: the call's       *)
(*     outcome is hr = "panic" and no further call is possible;            *)
(*   - build is the cargo profile: debug_assert! and overflow checks       *)
(*     exist in "debug" only.                                              *)
(***************************************************************************)
EXTENDS Integers, Sequences, FiniteSets, TLC

VARIABLES
    build,      \* "debug" | "release"
    heap,       \* allocated buffers: address -> bytes
    fonts,      \* PietFontCollectionLoader.fonts: sequence of addresses
    enums,      \* PietFontFileEnumerator objects: [files, idx]
    created,    \* per enumerator: the store's sequence when it was created
    trace,      \* per enumerator: the has_current values move_next wrote
    fontFiles,  \* PietFontFile objects: [data]
    loaders,    \* PietFontFileLoader objects: [data]
    streams,    \* PietFontFileStream objects: [data]
    ret         \* the last call: [op, self, args, hr, out]

vars == <<build, heap, fonts, enums, created, trace, fontFiles, loaders,
          streams, ret>>

(***************************************************************************)
(* Bounds of the model.                                                    *)
(***************************************************************************)
MaxFonts == 2      \* buffers ever allocated by register / replace_all
MaxEnums == 2      \* enumerators ever created
MaxFiles == 2      \* font files ever handed out by enumerators
MaxLoaders == 1    \* file loaders ever handed out
MaxStreams == 1    \* file streams ever handed out
MaxPast == 1       \* move_next calls made once the cursor is past the end

Builds == {"debug", "release"}

(***************************************************************************)
(* Option<T>.                                                              *)
(***************************************************************************)
None == <<>>
Some(x) == <<x>>

(***************************************************************************)
(* Fixed-width unsigned integers as little-endian 16-bit limbs.            *)
(***************************************************************************)
Limb == 2 ^ 16

\* n as a u64, for 0 <= n < 2^31 (usize as UINT64 of a buffer length)
U64(n) == <<n % Limb, n \div Limb, 0, 0>>

U64_MAX == <<Limb - 1, Limb - 1, Limb - 1, Limb - 1>>

RECURSIVE AddLimbs(_, _, _, _)
\* limbs of a + b from limb i on, carry c in; the last element is the carry out
AddLimbs(a, b, i, c) ==
    IF i > Len(a) THEN <<c>>
    ELSE LET s == a[i] + b[i] + c
         IN  <<s % Limb>> \o AddLimbs(a, b, i + 1, s \div Limb)

\* a + b in full: Len(a) limbs and the carry
FullAdd(a, b) == AddLimbs(a, b, 1, 0)

\* a + b overflows the width of a and b
AddOverflows(a, b) == FullAdd(a, b)[Len(a) + 1] # 0

\* a.wrapping_add(b)
WrappingAdd(a, b) == SubSeq(FullAdd(a, b), 1, Len(a))

RECURSIVE LimbsGt(_, _, _)
\* a > b comparing limbs i, i-1, ..., 1 (most significant first)
LimbsGt(a, b, i) ==
    IF i = 0 THEN FALSE
    ELSE IF a[i] # b[i] THEN a[i] > b[i]
    ELSE LimbsGt(a, b, i - 1)

\* a > b for two values of the same width
Gt(a, b) == LimbsGt(a, b, Len(a))

(***************************************************************************)
(* HRESULTs and the call record.                                           *)
(***************************************************************************)
S_OK == "S_OK"
E_INVALIDARG == "E_INVALIDARG"
Panic == "panic"

\* an out-parameter the call did not write
Untouched == [written |-> FALSE]

Call(op, self, args, hr, out) ==
    [op |-> op, self |-> self, args |-> args, hr |-> hr, out |-> out]

\* the process is running: no call has panicked
Alive == ret.hr # Panic

(***************************************************************************)
(* Buffer Store: PietFontCollectionLoader.fonts, RefCell<Rc<Vec<FontData>>>*)
(* The file holds no method that mutates the store; register and           *)
(* replace_all follow the specification's section 4.1.                     *)
(***************************************************************************)

\* register(bytes): appends a new shared buffer; never fails
Register(bytes) ==
    /\ Alive
    /\ Len(heap) < MaxFonts
    /\ heap' = Append(heap, bytes)
    /\ fonts' = Append(fonts, Len(heap) + 1)
    /\ ret' = Call("register", 0, [bytes |-> bytes], S_OK,
                   [written |-> TRUE, handle |-> Len(heap) + 1])
    /\ UNCHANGED <<build, enums, created, trace, fontFiles, loaders, streams>>

\* replace_all(buffers): swaps the entire sequence for newly allocated buffers
ReplaceAll(buffers) ==
    /\ Alive
    /\ Len(heap) + Len(buffers) <= MaxFonts
    /\ heap' = heap \o buffers
    /\ fonts' = [i \in 1..Len(buffers) |-> Len(heap) + i]
    /\ ret' = Call("replace_all", 0, [buffers |-> buffers], S_OK, Untouched)
    /\ UNCHANGED <<build, enums, created, trace, fontFiles, loaders, streams>>

(***************************************************************************)
(* PietFontCollectionLoader                                                *)
(***************************************************************************)

\* mutant: a new enumerator already stands at index 0
new_enumerator_started(files) == [files |-> files, idx |-> Some(0)]

\* PietFontFileEnumerator::new(files, Cell::new(None))
new_enumerator(files) == [files |-> files, idx |-> None]

\* create_enumerator_from_key: _factory, _key and _key_size are not read
CreateEnumeratorFromKey(key, key_size) ==
    /\ Alive
    /\ Len(enums) < MaxEnums
    /\ LET files == fonts      \* self.fonts.borrow().clone()
       IN  /\ enums' = Append(enums, new_enumerator(files))
           /\ created' = Append(created, fonts)
           /\ trace' = Append(trace, <<>>)
    /\ ret' = Call("create_enumerator_from_key", 0,
                   [key |-> key, key_size |-> key_size], S_OK,
                   [written |-> TRUE, enumerator |-> Len(enums) + 1])
    /\ UNCHANGED <<build, heap, fonts, fontFiles, loaders, streams>>

(***************************************************************************)
(* PietFontFileEnumerator                                                  *)
(***************************************************************************)

\* mutant: the enumerator reads the live store, not its own snapshot
live_files(e) == fonts

\* self.files of enumerator e
self_files(e) == enums[e].files

\* mutant: the cursor starts over once it has moved past index 0
next_idx_wrap(idx) == IF idx = None \/ idx[1] >= 1 THEN 0 ELSE idx[1] + 1

\* self.idx.get().map(|n| n + 1).unwrap_or(0)
next_idx(idx) == IF idx = None THEN 0 ELSE idx[1] + 1

\* mutant: the bound is inclusive
has_item_le(n, files) == n <= Len(files)

\* if next_idx < self.files.len() { TRUE } else { FALSE }
has_item(n, files) == n < Len(files)

MoveNext(e) ==
    /\ Alive
    /\ e \in DOMAIN enums
    /\ LET n == next_idx(enums[e].idx)
           h == has_item(n, self_files(e))
       IN  /\ n <= Len(self_files(e)) + MaxPast
           /\ trace' = [trace EXCEPT ![e] = Append(@, h)]
           /\ enums' = [enums EXCEPT ![e].idx = Some(n)]
           /\ ret' = Call("move_next", e, <<>>, S_OK,
                          [written |-> TRUE, has_current |-> h])
    /\ UNCHANGED <<build, heap, fonts, created, fontFiles, loaders, streams>>

\* mutant: every call wraps the first buffer of the snapshot
get_current_font_file_first(idx, files, b) ==
    IF idx = None
    THEN IF b = "debug"
         THEN [hr |-> Panic, data |-> None]
         ELSE [hr |-> S_OK, data |-> None]
    ELSE IF idx[1] < Len(files)
         THEN [hr |-> S_OK, data |-> Some(files[1])]
         ELSE [hr |-> Panic, data |-> None]

\* the outcome of get_current_font_file on cursor idx over files:
\* [hr, data] where data is the buffer of the new PietFontFile, if any
get_current_font_file(idx, files, b) ==
    IF idx = None
    THEN IF b = "debug"
         THEN [hr |-> Panic, data |-> None]     \* debug_assert!
         ELSE [hr |-> S_OK, data |-> None]      \* the if let is skipped
    ELSE IF idx[1] < Len(files)
         THEN [hr |-> S_OK, data |-> Some(files[idx[1] + 1])]
         ELSE [hr |-> Panic, data |-> None]     \* unwrap() of None

\* mutant: fetching the current file also advances the cursor
cursor_after_get_next(idx) == Some(next_idx(idx))

\* the cursor after get_current_font_file: self.idx is read with get() and
\* never set
cursor_after_get(idx) == idx

GetCurrentFontFile(e) ==
    /\ Alive
    /\ e \in DOMAIN enums
    /\ LET r == get_current_font_file(enums[e].idx, self_files(e), build)
       IN  IF r.data = None
           THEN /\ ret' = Call("get_current_font_file", e, <<>>, r.hr,
                               Untouched)
                /\ UNCHANGED fontFiles
           ELSE /\ Len(fontFiles) < MaxFiles
                /\ fontFiles' = Append(fontFiles, [data |-> r.data[1]])
                /\ ret' = Call("get_current_font_file", e, <<>>, r.hr,
                               [written |-> TRUE,
                                file |-> Len(fontFiles) + 1])
    /\ enums' = [enums EXCEPT ![e].idx = cursor_after_get(@)]
    /\ UNCHANGED <<build, heap, fonts, created, trace, loaders, streams>>

(***************************************************************************)
(* PietFontFile                                                            *)
(***************************************************************************)

\* the u32 with bytes b3 b2 b1 b0, most significant first (0xb3b2b1b0)
U32(b3, b2, b1, b0) == <<b1 * 256 + b0, b3 * 256 + b2>>

\* u32::from_le_bytes(header): header[1] is the least significant byte
from_le_bytes(header) == U32(header[4], header[3], header[2], header[1])

TAG_TRUE == U32(116, 114, 117, 101)    \* 0x74727565
TAG_0100 == U32(0, 1, 0, 0)            \* 0x00010000
TAG_OTTO == U32(79, 84, 84, 79)        \* 0x4F54544F

\* mutant: no face in a file of unknown type
number_of_faces_0(file_type) == IF file_type = "UNKNOWN" THEN 0 ELSE 1

\* the value analyze writes to *number_of_faces
number_of_faces(file_type) == 1

\* analyze on a buffer holding bytes: [hr, out]
analyze(bytes) ==
    IF Len(bytes) < 4
    THEN [hr |-> Panic, out |-> Untouched]  \* self.data[i]: index out of bounds
    ELSE LET header == <<bytes[1], bytes[2], bytes[3], bytes[4]>>
             tag == from_le_bytes(header)
             types == IF tag = TAG_TRUE \/ tag = TAG_0100
                      THEN <<"TRUETYPE", "TRUETYPE">>
                      ELSE IF tag = TAG_OTTO
                           THEN <<"CFF", "CFF">>
                           ELSE <<"UNKNOWN", "UNKNOWN">>
             supported == IF types[1] # "UNKNOWN" THEN TRUE ELSE FALSE
         IN  [hr |-> S_OK,
              out |-> [written |-> TRUE,
                       is_supported_file_type |-> supported,
                       file_type |-> types[1],
                       face_type |-> types[2],
                       number_of_faces |-> number_of_faces(types[1])]]

Analyze(f) ==
    /\ Alive
    /\ f \in DOMAIN fontFiles
    /\ LET r == analyze(heap[fontFiles[f].data])
       IN  ret' = Call("analyze", f, <<>>, r.hr, r.out)
    /\ UNCHANGED <<build, heap, fonts, enums, created, trace, fontFiles,
                   loaders, streams>>

\* u32::MAX as a u64
U32_MAX == <<Limb - 1, Limb - 1, 0, 0>>

\* the outcome of get_reference_key on a buffer at address data_ptr holding
\* data_len bytes (a usize of 64 bits, as limbs): [hr, out];
\* self.data.len().try_into().unwrap() panics when the length is no UINT32
get_reference_key(data_ptr, data_len) ==
    IF Gt(data_len, U32_MAX)
    THEN [hr |-> Panic, out |-> Untouched]
    ELSE [hr |-> S_OK,
          out |-> [written |-> TRUE,
                   key |-> data_ptr,
                   key_size |-> <<data_len[1], data_len[2]>>]]

\* the key of font file f: self.data.as_ptr() and self.data.len()
reference_key(f) ==
    get_reference_key(fontFiles[f].data,
                      U64(Len(heap[fontFiles[f].data]))).out

GetReferenceKey(f) ==
    /\ Alive
    /\ f \in DOMAIN fontFiles
    /\ LET r == get_reference_key(fontFiles[f].data,
                                  U64(Len(heap[fontFiles[f].data])))
       IN  ret' = Call("get_reference_key", f, <<>>, r.hr, r.out)
    /\ UNCHANGED <<build, heap, fonts, enums, created, trace, fontFiles,
                   loaders, streams>>

GetLoader(f) ==
    /\ Alive
    /\ f \in DOMAIN fontFiles
    /\ Len(loaders) < MaxLoaders
    /\ loaders' = Append(loaders, [data |-> fontFiles[f].data])
    /\ ret' = Call("get_loader", f, <<>>, S_OK,
                   [written |-> TRUE, loader |-> Len(loaders) + 1])
    /\ UNCHANGED <<build, heap, fonts, enums, created, trace, fontFiles,
                   streams>>

(***************************************************************************)
(* PietFontFileLoader                                                      *)
(***************************************************************************)

\* mutant: a key at most as long as the buffer is accepted
create_stream_from_key_gt(data_len, file_key, key_size) ==
    IF key_size > data_len THEN E_INVALIDARG ELSE S_OK

\* the HRESULT of create_stream_from_key on a buffer of data_len bytes;
\* _file_key is not read
create_stream_from_key(data_len, file_key, key_size) ==
    IF key_size # data_len THEN E_INVALIDARG ELSE S_OK

CreateStreamFromKey(l, file_key, key_size) ==
    /\ Alive
    /\ l \in DOMAIN loaders
    /\ LET data == loaders[l].data
           hr == create_stream_from_key(Len(heap[data]), file_key, key_size)
           args == [file_key |-> file_key, key_size |-> key_size]
       IN  IF hr = S_OK
           THEN /\ Len(streams) < MaxStreams
                /\ streams' = Append(streams, [data |-> data])
                /\ ret' = Call("create_stream_from_key", l, args, hr,
                               [written |-> TRUE,
                                stream |-> Len(streams) + 1])
           ELSE /\ ret' = Call("create_stream_from_key", l, args, hr,
                               Untouched)
                /\ UNCHANGED streams
    /\ UNCHANGED <<build, heap, fonts, enums, created, trace, fontFiles,
                   loaders>>

(***************************************************************************)
(* PietFontFileStream                                                      *)
(***************************************************************************)

\* mutant: the stream looks its buffer up in the store on every call
stream_data_live(s) == IF fonts # <<>> THEN fonts[1] ELSE streams[s].data

\* self.data of stream s
stream_data(s) == streams[s].data

\* mutant: the offset is not added
fragment_start_base(data, offset) == [base |-> data, offset |-> U64(0)]

\* self.data.as_ptr().add(offset as usize): a pointer into buffer data
fragment_start(data, offset) == [base |-> data, offset |-> offset]

\* mutant: the size is that of the file's body, without its 4-byte header
get_file_size_body(data_len) == U64(IF data_len >= 4 THEN data_len - 4 ELSE 0)

\* self.data.len() as UINT64
get_file_size(data_len) == U64(data_len)

\* the outcome of the range check of read_file_fragment on a buffer of
\* data_len bytes: offset + length is a u64 addition, which panics on
\* overflow when overflow checks are compiled in and wraps otherwise
read_file_fragment(data_len, offset, length, b) ==
    IF AddOverflows(offset, length) /\ b = "debug"
    THEN Panic
    ELSE IF Gt(WrappingAdd(offset, length), U64(data_len))
         THEN E_INVALIDARG
         ELSE S_OK

ReadFileFragment(s, offset, length) ==
    /\ Alive
    /\ s \in DOMAIN streams
    /\ LET data == stream_data(s)
           hr == read_file_fragment(Len(heap[data]), offset, length, build)
           args == [offset |-> offset, length |-> length]
       IN  ret' = Call("read_file_fragment", s, args, hr,
                       IF hr = S_OK
                       THEN [written |-> TRUE,
                             start |-> fragment_start(data, offset),
                             ctx |-> "null"]
                       ELSE Untouched)
    /\ UNCHANGED <<build, heap, fonts, enums, created, trace, fontFiles,
                   loaders, streams>>

ReleaseFragment(s) ==
    /\ Alive
    /\ s \in DOMAIN streams
    /\ ret' = Call("release_fragment", s, <<>>, S_OK, Untouched)
    /\ UNCHANGED <<build, heap, fonts, enums, created, trace, fontFiles,
                   loaders, streams>>

GetFileSize(s) ==
    /\ Alive
    /\ s \in DOMAIN streams
    /\ ret' = Call("get_file_size", s, <<>>, S_OK,
                   [written |-> TRUE,
                    size |-> get_file_size(Len(heap[stream_data(s)]))])
    /\ UNCHANGED <<build, heap, fonts, enums, created, trace, fontFiles,
                   loaders, streams>>

LAST_WRITE_TIME == 10

GetLastWriteTime(s) ==
    /\ Alive
    /\ s \in DOMAIN streams
    /\ ret' = Call("get_last_write_time", s, <<>>, S_OK,
                   [written |-> TRUE, last_write_time |-> LAST_WRITE_TIME])
    /\ UNCHANGED <<build, heap, fonts, enums, created, trace, fontFiles,
                   loaders, streams>>
(***************************************************************************)
(* Enumeration: a caller drives the store and the enumerators, which hand  *)
(* out font files.                                                         *)
(***************************************************************************)

\* the byte buffers the caller registers
Samples == {<<0, 1, 0, 0, 5>>}

\* the arguments of replace_all
ReplaceInputs == {<<>>} \cup {<<b>> : b \in Samples}

\* the (ignored) keys handed to create_enumerator_from_key
EnumKeys == {<<>>, <<7>>}

Init ==
    /\ build \in Builds
    /\ heap = <<>>
    /\ fonts = <<>>        \* Default: RefCell::new(Rc::new(Vec::new()))
    /\ enums = <<>>
    /\ created = <<>>
    /\ trace = <<>>
    /\ fontFiles = <<>>
    /\ loaders = <<>>
    /\ streams = <<>>
    /\ ret = Call("new", 0, <<>>, S_OK, Untouched)

Next ==
    \/ \E b \in Samples : Register(b)
    \/ \E bs \in ReplaceInputs : ReplaceAll(bs)
    \/ \E k \in EnumKeys : CreateEnumeratorFromKey(k, Len(k))
    \/ \E e \in DOMAIN enums : MoveNext(e)
    \/ \E e \in DOMAIN enums : GetCurrentFontFile(e)

Spec == Init /\ [][Next]_vars

(***************************************************************************)
(* One font file: a PietFontFile constructed over a buffer                 *)
(* (PietFontFile::new(data), or Default over the empty slice), its loader  *)
(* and its streams, with the whole range of arguments.                     *)
(***************************************************************************)

\* buffers: empty and truncated ones, the three magic numbers in both byte
\* orders, unrelated tags, and buffers longer than the header
FileSamples ==
    { <<>>, <<79>>, <<0, 1>>, <<0, 1, 0>>,
      <<0, 1, 0, 0>>, <<0, 0, 1, 0>>,
      <<116, 114, 117, 101>>, <<101, 117, 114, 116>>,
      <<79, 84, 84, 79>>,
      <<1, 2, 3, 4>>, <<255, 255, 255, 255>>, <<0, 0, 0, 0>>,
      <<0, 1, 0, 0, 7>>, <<79, 84, 84, 79, 0, 255>>, <<84, 79, 79, 84, 1>> }

FileKeySizes == 0..7

FileKeyBytes == {<<>>, <<0, 1, 0, 0>>, <<9, 9, 9, 9>>, <<9, 9, 9, 9, 9, 9>>}

\* 2^63
U64_HALF == <<0, 0, 0, Limb \div 2>>

\* small values, and values whose sums pass 2^64
FileU64s ==
    {U64(n) : n \in 0..7} \cup
    {U64_MAX, U64_HALF, <<Limb - 4, Limb - 1, Limb - 1, Limb - 1>>}

InitFile ==
    /\ build \in Builds
    /\ heap \in {<<b>> : b \in FileSamples}
    /\ fonts = <<>>
    /\ enums = <<>>
    /\ created = <<>>
    /\ trace = <<>>
    /\ fontFiles = <<[data |-> 1]>>
    /\ loaders = <<>>
    /\ streams = <<>>
    /\ ret = Call("new", 0, <<>>, S_OK, Untouched)

NextFile ==
    \/ \E f \in DOMAIN fontFiles : Analyze(f)
    \/ \E f \in DOMAIN fontFiles : GetReferenceKey(f)
    \/ \E f \in DOMAIN fontFiles : GetLoader(f)
    \/ \E l \in DOMAIN loaders, k \in FileKeyBytes, n \in FileKeySizes :
          CreateStreamFromKey(l, k, n)
    \/ \E s \in DOMAIN streams, o \in FileU64s, n \in FileU64s :
          ReadFileFragment(s, o, n)
    \/ \E s \in DOMAIN streams : ReleaseFragment(s)
    \/ \E s \in DOMAIN streams : GetFileSize(s)
    \/ \E s \in DOMAIN streams : GetLastWriteTime(s)

SpecFile == InitFile /\ [][NextFile]_vars

(***************************************************************************)
(* One chain: the store, one enumerator, the font files it hands out, one  *)
(* loader and its streams, from registration to the bytes read back.       *)
(***************************************************************************)

ChainSamples == {<<>>, <<0, 1, 0, 0, 5>>}

ChainKeySizes == {0, 5}

ChainOffsets == {U64(0), U64(1)}

ChainLengths == {U64(0), U64(4), U64(5)}

NextChain ==
    \/ \E b \in ChainSamples : Register(b)
    \/ \E bs \in {<<>>} \cup {<<b>> : b \in ChainSamples} : ReplaceAll(bs)
    \/ enums = <<>> /\ CreateEnumeratorFromKey(<<>>, 0)
    \/ \E e \in DOMAIN enums : MoveNext(e)
    \/ \E e \in DOMAIN enums : GetCurrentFontFile(e)
    \/ \E f \in DOMAIN fontFiles : Analyze(f)
    \/ \E f \in DOMAIN fontFiles : GetReferenceKey(f)
    \/ \E f \in DOMAIN fontFiles : loaders = <<>> /\ GetLoader(f)
    \/ \E l \in DOMAIN loaders, n \in ChainKeySizes :
          streams = <<>> /\ CreateStreamFromKey(l, <<>>, n)
    \/ \E s \in DOMAIN streams, o \in ChainOffsets, n \in ChainLengths :
          ReadFileFragment(s, o, n)
    \/ \E s \in DOMAIN streams : ReleaseFragment(s)
    \/ \E s \in DOMAIN streams : GetFileSize(s)
    \/ \E s \in DOMAIN streams : GetLastWriteTime(s)

SpecChain == Init /\ [][NextChain]_vars
(***************************************************************************)
(* Properties.                                                             *)
(***************************************************************************)

\* the error taxonomy of the specification (section 7) for an outcome: no
\* HRESULT of this file stands for InvalidState or OutOfRange
ErrorKind(hr) ==
    IF hr = S_OK THEN "Success"
    ELSE IF hr = E_INVALIDARG THEN "InvalidArgument"
    ELSE "Fault"

\* the bytes of the buffer the font file, loader or stream of the last call
\* wraps
RetBytes ==
    IF ret.op \in {"analyze", "get_reference_key", "get_loader"}
    THEN heap[fontFiles[ret.self].data]
    ELSE IF ret.op = "create_stream_from_key"
         THEN heap[loaders[ret.self].data]
         ELSE heap[stream_data(ret.self)]

\* offset + length, computed without wrap-around, exceeds a buffer of n bytes
ExceedsBuffer(offset, length, n) ==
    Gt(FullAdd(offset, length), U64(n) \o <<0>>)

(* C1: over a snapshot of N buffers, the successive results of move_next   *)
(* are true exactly N times and false on every later call, and no call     *)
(* errors.                                                                 *)
C1_MoveNextTrueNTimesThenFalse ==
    /\ \A e \in DOMAIN enums :
          \A k \in DOMAIN trace[e] :
             trace[e][k] = (k <= Len(enums[e].files))
    /\ ret.op = "move_next" => ret.hr = S_OK

\* an enumerator over a non-empty snapshot has answered false twice
C1_Witness ==
    \E e \in DOMAIN enums :
       /\ Len(enums[e].files) >= 1
       /\ Len(trace[e]) >= Len(enums[e].files) + 2

(* C2: get_current_font_file on an enumerator on which move_next was never *)
(* called fails with InvalidState: it reports no success and yields no     *)
(* font file.                                                              *)
C2_NotStartedIsInvalidState ==
    (ret.op = "get_current_font_file" /\ enums[ret.self].idx = None)
        => ErrorKind(ret.hr) = "InvalidState" /\ ~ret.out.written

(* C3: get_current_font_file after a move_next that returned false (the    *)
(* cursor index is at or past the snapshot's length) fails with            *)
(* InvalidState and does not fault.                                        *)
C3_ExhaustedIsInvalidState ==
    (/\ ret.op = "get_current_font_file"
     /\ enums[ret.self].idx # None
     /\ enums[ret.self].idx[1] >= Len(enums[ret.self].files))
        => ErrorKind(ret.hr) = "InvalidState"

(* C4: snapshot isolation: whatever register and replace_all did to the    *)
(* store after an enumerator was created, its move_next results and the    *)
(* font files it yields are those of the sequence the store held at its    *)
(* creation.                                                               *)
C4_SnapshotIsolation ==
    /\ \A e \in DOMAIN enums :
          \A k \in DOMAIN trace[e] : trace[e][k] = (k <= Len(created[e]))
    /\ (ret.op = "get_current_font_file" /\ ret.out.written)
          => fontFiles[ret.out.file].data
                = created[ret.self][enums[ret.self].idx[1] + 1]

\* an enumerator yields a font file of its snapshot after the store changed
C4_Witness ==
    /\ ret.op = "get_current_font_file"
    /\ ret.out.written
    /\ created[ret.self] # fonts
    /\ Len(trace[ret.self]) >= 1

\* what the specification expects of analyze for a buffer of 4 bytes or
\* more, read from its first four bytes in file order
ExpectedType(bytes) ==
    LET prefix == SubSeq(bytes, 1, 4)
    IN  IF prefix \in {<<0, 1, 0, 0>>, <<116, 114, 117, 101>>}
        THEN "TRUETYPE"
        ELSE IF prefix = <<79, 84, 84, 79>> THEN "CFF" ELSE "UNKNOWN"

(* C5: analyze reads the first 4 bytes as a big-endian tag: 00 01 00 00    *)
(* and 74 72 75 65 are TrueType and supported, 4F 54 54 4F is CFF and      *)
(* supported, every other prefix is Unknown and unsupported.               *)
C5_AnalyzeBigEndianTag ==
    (ret.op = "analyze" /\ Len(RetBytes) >= 4)
        => /\ ret.hr = S_OK
           /\ ret.out.file_type = ExpectedType(RetBytes)
           /\ ret.out.face_type = ExpectedType(RetBytes)
           /\ ret.out.is_supported_file_type
                 = (ExpectedType(RetBytes) # "UNKNOWN")

(* C6: analyze on a buffer shorter than 4 bytes returns normally with      *)
(* Unknown, unsupported; it does not fault.                                *)
C6_AnalyzeShortBuffer ==
    (ret.op = "analyze" /\ Len(RetBytes) < 4)
        => /\ ret.hr = S_OK
           /\ ret.out.file_type = "UNKNOWN"
           /\ ~ret.out.is_supported_file_type

(* C7, as claimed: analyze reports face_count 1 exactly when the type is   *)
(* supported, and 0 when the tag is unrecognized.                          *)
C7_FaceCountFollowsSupport ==
    (ret.op = "analyze" /\ ret.hr = S_OK)
        => ret.out.number_of_faces
              = (IF ret.out.is_supported_file_type THEN 1 ELSE 0)

(* C7, amended: whenever analyze returns, it reports face_count 1, for a   *)
(* supported type and for an unrecognized tag alike.                       *)
C7_FaceCountAlwaysOne ==
    (ret.op = "analyze" /\ ret.hr = S_OK) => ret.out.number_of_faces = 1

\* analyze returned unsupported, with one face
C7_Witness ==
    /\ ret.op = "analyze"
    /\ ret.hr = S_OK
    /\ ~ret.out.is_supported_file_type
    /\ ret.out.number_of_faces = 1

(* C8: read_file_fragment never succeeds when offset + length, computed    *)
(* without wrap-around, exceeds the buffer length: it fails with an error  *)
(* also when the 64-bit sum overflows.                                     *)
C8_NoSuccessPastTheEnd ==
    (/\ ret.op = "read_file_fragment"
     /\ ExceedsBuffer(ret.args.offset, ret.args.length, Len(RetBytes)))
        => ret.hr \notin {S_OK, Panic}

(* C9: read_file_fragment with offset + length > buffer length (no         *)
(* overflow involved) fails with OutOfRange, an error distinct from the    *)
(* InvalidArgument of a key-length mismatch.                               *)
C9_OutOfRangeIsItsOwnError ==
    (/\ ret.op = "read_file_fragment"
     /\ ~AddOverflows(ret.args.offset, ret.args.length)
     /\ ExceedsBuffer(ret.args.offset, ret.args.length, Len(RetBytes)))
        => /\ ErrorKind(ret.hr) = "OutOfRange"
           /\ ret.hr # create_stream_from_key(Len(RetBytes), <<>>,
                                               Len(RetBytes) + 1)

(* C10: create_stream_from_key fails with E_INVALIDARG whenever key_size   *)
(* differs from the buffer's length, and succeeds with a stream over the   *)
(* same buffer whenever it equals that length, whatever the key holds.     *)
C10_OpenStreamChecksKeyLengthOnly ==
    ret.op = "create_stream_from_key"
        => IF ret.args.key_size # Len(RetBytes)
           THEN ErrorKind(ret.hr) = "InvalidArgument" /\ ~ret.out.written
           ELSE /\ ret.hr = S_OK
                /\ ret.out.written
                /\ streams[ret.out.stream].data = loaders[ret.self].data

\* a stream was opened with a key whose bytes are not the buffer's
C10_Witness ==
    /\ ret.op = "create_stream_from_key"
    /\ ret.hr = S_OK
    /\ ret.args.file_key # RetBytes
    /\ Len(RetBytes) > 0

\* a u64 below 2^31 as a number
ToNat(u) == u[1] + u[2] * Limb

\* the length bytes a caller reads at pointer start
View(start, length) ==
    SubSeq(heap[start.base], ToNat(start.offset) + 1,
           ToNat(start.offset) + ToNat(length))

\* the buffers the enumerators were created over
SnapshotBuffers ==
    UNION {{created[e][i] : i \in DOMAIN created[e]} : e \in DOMAIN created}

(* C11: round trip: after a move_next that returned true,                  *)
(* get_current_font_file succeeds; get_loader succeeds over the same       *)
(* buffer; create_stream_from_key with key_size = len(B) succeeds over the *)
(* same buffer; and read_file_fragment(o, l) with o + l <= len(B) succeeds *)
(* and yields B[o .. o+l) of the registered bytes B, so (0, len(B)) yields *)
(* B exactly.                                                              *)
C11_RoundTrip ==
    /\ (/\ ret.op = "get_current_font_file"
        /\ trace[ret.self] # <<>>
        /\ trace[ret.self][Len(trace[ret.self])])
          => /\ ret.hr = S_OK
             /\ ret.out.written
             /\ fontFiles[ret.out.file].data \in SnapshotBuffers
    /\ ret.op = "get_loader"
          => /\ ret.hr = S_OK
             /\ ret.out.written
             /\ loaders[ret.out.loader].data = fontFiles[ret.self].data
    /\ (ret.op = "create_stream_from_key"
           /\ ret.args.key_size = Len(heap[loaders[ret.self].data]))
          => /\ ret.hr = S_OK
             /\ ret.out.written
             /\ streams[ret.out.stream].data = loaders[ret.self].data
    /\ (/\ ret.op = "read_file_fragment"
        /\ ~ExceedsBuffer(ret.args.offset, ret.args.length,
                          Len(heap[streams[ret.self].data])))
          => /\ ret.hr = S_OK
             /\ ret.out.written
             /\ streams[ret.self].data \in SnapshotBuffers
             /\ View(ret.out.start, ret.args.length)
                   = SubSeq(heap[streams[ret.self].data],
                            ToNat(ret.args.offset) + 1,
                            ToNat(ret.args.offset) + ToNat(ret.args.length))

\* the whole of a registered non-empty buffer was read back
C11_Witness ==
    /\ ret.op = "read_file_fragment"
    /\ ret.hr = S_OK
    /\ ret.args.offset = U64(0)
    /\ ToNat(ret.args.length) = Len(heap[streams[ret.self].data])
    /\ View(ret.out.start, ret.args.length) = <<0, 1, 0, 0, 5>>
    /\ \E i \in DOMAIN created[1] : heap[created[1][i]] = <<0, 1, 0, 0, 5>>
(* C12: get_file_size always succeeds and reports exactly the length of     *)
(* the buffer the stream wraps, a zero-length buffer included; the answer   *)
(* depends on nothing but that buffer, so every call gives the same one.    *)
C12_FileSizeIsBufferLength ==
    ret.op = "get_file_size" =>
        /\ ret.hr = S_OK
        /\ ret.out.written
        /\ ret.out.size = U64(Len(heap[streams[ret.self].data]))
        /\ ToNat(ret.out.size) = Len(heap[streams[ret.self].data])

C12_Witness ==
    /\ ret.op = "get_file_size"
    /\ ret.hr = S_OK
    /\ heap[streams[ret.self].data] = <<79, 84, 84, 79, 0, 255>>
    /\ ToNat(ret.out.size) = 6

(***************************************************************************)
(* get_reference_key as a function of the buffer's address and length: the *)
(* buffers above are byte sequences of a few bytes; here the length is     *)
(* drawn from the whole range of usize, without the bytes.                 *)
(***************************************************************************)

\* 2^32 - 1, 2^32, 2^32 + 1, 2^48, 2^63 and 2^64 - 1 next to short lengths
KeyLens ==
    {U64(n) : n \in 0..15} \cup
    {U32_MAX, <<0, 0, 1, 0>>, <<1, 0, 1, 0>>, <<0, 0, 0, 1>>, U64_HALF,
     U64_MAX}

KeyPtrs == 1..3

InitKey ==
    /\ build \in Builds
    /\ heap = <<>>
    /\ fonts = <<>>
    /\ enums = <<>>
    /\ created = <<>>
    /\ trace = <<>>
    /\ fontFiles = <<>>
    /\ loaders = <<>>
    /\ streams = <<>>
    /\ ret \in {Call("key_input", 0, [data_ptr |-> p, data_len |-> n], S_OK,
                      Untouched) : p \in KeyPtrs, n \in KeyLens}

\* get_reference_key on a PietFontFile whose data is the buffer of the input
GetReferenceKeyOfBuffer ==
    /\ ret.op = "key_input"
    /\ LET r == get_reference_key(ret.args.data_ptr, ret.args.data_len)
       IN  ret' = Call("get_reference_key", 0, ret.args, r.hr, r.out)
    /\ UNCHANGED <<build, heap, fonts, enums, created, trace, fontFiles,
                   loaders, streams>>

NextKey == GetReferenceKeyOfBuffer

SpecKey == InitKey /\ [][NextKey]_vars

\* the address and the length of the buffer of the font file of the last
\* get_reference_key call
KeyBuffer ==
    IF ret.self \in DOMAIN fontFiles
    THEN [data_ptr |-> fontFiles[ret.self].data,
          data_len |-> U64(Len(heap[fontFiles[ret.self].data]))]
    ELSE ret.args

(* C13: get_reference_key always succeeds and returns the address and the  *)
(* length of the wrapped buffer; the key is determined by the buffer       *)
(* alone, so font files over the same buffer report equal keys and one     *)
(* font file reports the same key on every call.                           *)
C13_ReferenceKeyAlwaysSucceeds ==
    ret.op = "get_reference_key" =>
        /\ ret.hr = S_OK
        /\ ret.out.written
        /\ ret.out.key = KeyBuffer.data_ptr
        /\ ret.out.key_size \o <<0, 0>> = KeyBuffer.data_len

\* a step of the buffer store: register or replace_all
StoreStep == fonts' # fonts

(* C14: a font file, file loader or file stream handed out before the      *)
(* buffer store changes still refers to its original buffer afterwards:    *)
(* the buffer's bytes, the reference key, the file size and the result of  *)
(* every read_file_fragment are the same after the store step as before.   *)
C14_WrappersOutliveStore ==
    [][StoreStep =>
        /\ \A f \in DOMAIN fontFiles :
              /\ f \in DOMAIN fontFiles'
              /\ reference_key(f)' = reference_key(f)
              /\ heap'[reference_key(f).key] = heap[reference_key(f).key]
        /\ \A l \in DOMAIN loaders :
              /\ l \in DOMAIN loaders'
              /\ heap'[loaders'[l].data] = heap[loaders[l].data]
        /\ \A s \in DOMAIN streams :
              /\ s \in DOMAIN streams'
              /\ stream_data(s)' = stream_data(s)
              /\ heap'[stream_data(s)'] = heap[stream_data(s)]
              /\ get_file_size(Len(heap[stream_data(s)]))' =
                     get_file_size(Len(heap[stream_data(s)]))
              /\ read_file_fragment(Len(heap[stream_data(s)]), U64(0),
                                    get_file_size(Len(heap[stream_data(s)])),
                                    build)' =
                     read_file_fragment(Len(heap[stream_data(s)]), U64(0),
                                        get_file_size(Len(heap[stream_data(s)])),
                                        build)
              /\ View(fragment_start(stream_data(s), U64(0)),
                      get_file_size(Len(heap[stream_data(s)])))' =
                     View(fragment_start(stream_data(s), U64(0)),
                          get_file_size(Len(heap[stream_data(s)])))
    ]_vars

\* a stream reads its buffer in full after replace_all dropped that buffer
\* from the store
C14_Witness ==
    /\ ret.op = "read_file_fragment"
    /\ ret.hr = S_OK
    /\ \A i \in DOMAIN fonts : fonts[i] # streams[ret.self].data
    /\ fonts # <<>>
    /\ fontFiles # <<>>
    /\ loaders # <<>>
    /\ View(ret.out.start, ret.args.length) = <<0, 1, 0, 0, 5>>

(***************************************************************************)
(* piet-cairo text/grapheme.rs: pure functions.  Coordinates are f64 in    *)
(* the source; the model takes whole numbers, on which the source's        *)
(* arithmetic is exact.  A text is a sequence of chars, each with its      *)
(* UTF-8 width in bytes and a flag telling whether it extends the grapheme *)
(* cluster of the char before it (a combining mark).                       *)
(***************************************************************************)

MaxCoord == 14
MaxChars == 4
MaxCharBytes == 2

Returned == "return"

HitTestPoint(idx, is_inside) == [idx |-> idx, is_inside |-> is_inside]

\* twice leading + ((trailing - leading) / 2.0)
midpoint2(leading, trailing) == 2 * leading + (trailing - leading)

point_x_in_grapheme_gt(point_x, gb) ==
    IF point_x >= gb.leading /\ point_x <= gb.trailing
    THEN Some(HitTestPoint(IF 2 * point_x > midpoint2(gb.leading, gb.trailing)
                           THEN gb.next_idx
                           ELSE gb.curr_idx, TRUE))
    ELSE None

point_x_in_grapheme(point_x, gb) ==
    IF point_x >= gb.leading /\ point_x <= gb.trailing
    THEN Some(HitTestPoint(IF 2 * point_x >= midpoint2(gb.leading, gb.trailing)
                           THEN gb.next_idx
                           ELSE gb.curr_idx, TRUE))
    ELSE None

RECURSIVE text_len_chars(_)
text_len_chars(text) ==
    IF text = <<>> THEN 0 ELSE 1 + text_len_chars(Tail(text))

\* text.len(): the length of the text in bytes
RECURSIVE text_len(_)
text_len(text) ==
    IF text = <<>> THEN 0 ELSE Head(text).width + text_len(Tail(text))

\* UnicodeSegmentation::grapheme_indices(text, true): the byte offset of the
\* first char of every extended grapheme cluster, in order
RECURSIVE grapheme_indices_from(_, _, _)
grapheme_indices_from(text, i, offset) ==
    IF i > Len(text)
    THEN <<>>
    ELSE (IF i = 1 \/ ~text[i].extend THEN <<offset>> ELSE <<>>)
         \o grapheme_indices_from(text, i + 1, offset + text[i].width)

grapheme_indices(text) == grapheme_indices_from(text, 1, 0)

\* the x advance of the text before byte text_position, when that is a
\* position of the text; the font is its advance per byte
hit_test_line_position(font, text, text_position) ==
    IF text_position <= text_len(text)
    THEN Some(font * text_position)
    ELSE None

get_grapheme_boundaries(font, text, grapheme_position) ==
    LET graphemes == grapheme_indices(text)
    IN  IF grapheme_position >= Len(graphemes)
        THEN None
        ELSE LET text_position == graphemes[grapheme_position + 1]
                 next_text_position ==
                     IF grapheme_position + 1 < Len(graphemes)
                     THEN graphemes[grapheme_position + 2]
                     ELSE text_len(text)
                 curr_edge == hit_test_line_position(font, text, text_position)
                 next_edge ==
                     hit_test_line_position(font, text, next_text_position)
             IN  IF curr_edge = None \/ next_edge = None
                 THEN None
                 ELSE Some([curr_idx |-> text_position,
                            next_idx |-> next_text_position,
                            leading |-> curr_edge[1],
                            trailing |-> next_edge[1]])

PointXInGrapheme ==
    /\ ret.op = "point_input"
    /\ ret' = Call("point_x_in_grapheme", 0, ret.args, Returned,
                   point_x_in_grapheme(ret.args.point_x,
                                       ret.args.grapheme_boundaries))
    /\ UNCHANGED <<build, heap, fonts, enums, created, trace, fontFiles,
                   loaders, streams>>

GetGraphemeBoundaries ==
    /\ ret.op = "text_input"
    /\ ret' = Call("get_grapheme_boundaries", 0, ret.args, Returned,
                   get_grapheme_boundaries(ret.args.font, ret.args.text,
                                           ret.args.grapheme_position))
    /\ UNCHANGED <<build, heap, fonts, enums, created, trace, fontFiles,
                   loaders, streams>>

Coords == 0..MaxCoord

\* (curr_idx, next_idx) of the boundary records tried
IdxPairs == {<<2, 4>>, <<0, 1>>}

PointInputs ==
    [point_x : Coords,
     grapheme_boundaries :
         {[curr_idx |-> p[1], next_idx |-> p[2], leading |-> l, trailing |-> t] :
             p \in IdxPairs, l \in Coords, t \in Coords}]

Chars == [width : 1..MaxCharBytes, extend : BOOLEAN]

Texts == UNION {[1..n -> Chars] : n \in 0..MaxChars}

ScaledFonts == {3}

TextInputs ==
    [font : ScaledFonts, text : Texts, grapheme_position : 0..(MaxChars + 1)]

InitGrapheme ==
    /\ build \in Builds
    /\ heap = <<>>
    /\ fonts = <<>>
    /\ enums = <<>>
    /\ created = <<>>
    /\ trace = <<>>
    /\ fontFiles = <<>>
    /\ loaders = <<>>
    /\ streams = <<>>
    /\ ret \in {Call("point_input", 0, a, S_OK, Untouched) : a \in PointInputs}
           \cup {Call("text_input", 0, a, S_OK, Untouched) : a \in TextInputs}

NextGrapheme ==
    \/ PointXInGrapheme
    \/ GetGraphemeBoundaries

SpecGrapheme == InitGrapheme /\ [][NextGrapheme]_vars

(* C15: point_x_in_grapheme returns a hit with is_inside = true for every  *)
(* x in [leading, trailing]: next_idx when x is at least as near to the    *)
(* trailing edge as to the leading edge (midpoint included), curr_idx when *)
(* x is nearer to the leading edge; for x outside the interval, no hit.    *)
C15_PointXInGrapheme ==
    ret.op = "point_x_in_grapheme" =>
        LET x == ret.args.point_x
            b == ret.args.grapheme_boundaries
        IN  /\ ret.hr = Returned
            /\ (b.leading <= x /\ x <= b.trailing) =>
                  /\ ret.out # None
                  /\ ret.out[1].is_inside = TRUE
                  /\ (x - b.leading >= b.trailing - x) =>
                         ret.out[1].idx = b.next_idx
                  /\ (x - b.leading < b.trailing - x) =>
                         ret.out[1].idx = b.curr_idx
            /\ (x < b.leading \/ x > b.trailing) => ret.out = None

\* the tie of the test: x = 12 between 10 and 14 goes to next_idx = 4
C15_Witness ==
    /\ ret.op = "point_x_in_grapheme"
    /\ ret.args.point_x = 12
    /\ ret.args.grapheme_boundaries =
           [curr_idx |-> 2, next_idx |-> 4, leading |-> 10, trailing |-> 14]
    /\ ret.out = Some(HitTestPoint(4, TRUE))

\* the chars of the text that start a grapheme cluster
ClusterStarts(text) == {i \in 1..Len(text) : i = 1 \/ ~text[i].extend}

\* the char that starts cluster p, counting clusters from 0
ClusterChar(text, p) ==
    CHOOSE i \in ClusterStarts(text) :
        Cardinality({j \in ClusterStarts(text) : j < i}) = p

\* the number of bytes of the text before char i
RECURSIVE ByteOffset(_, _)
ByteOffset(text, i) ==
    IF i <= 1 THEN 0 ELSE text[i - 1].width + ByteOffset(text, i - 1)

(* C18: on a text of G grapheme clusters, get_grapheme_boundaries at       *)
(* position p < G returns curr_idx = the byte offset where cluster p       *)
(* starts and next_idx = the byte offset where cluster p + 1 starts, or    *)
(* the byte length of the text when p is the last cluster; at p >= G it    *)
(* returns None.                                                           *)
C18_GraphemeBoundaries ==
    ret.op = "get_grapheme_boundaries" =>
        LET text == ret.args.text
            p == ret.args.grapheme_position
            G == Cardinality(ClusterStarts(text))
        IN  /\ p >= G => ret.out = None
            /\ p < G =>
                  /\ ret.out # None
                  /\ ret.out[1].curr_idx = ByteOffset(text, ClusterChar(text, p))
                  /\ ret.out[1].next_idx =
                         IF p + 1 < G
                         THEN ByteOffset(text, ClusterChar(text, p + 1))
                         ELSE ByteOffset(text, Len(text) + 1)

\* the last cluster of a text whose clusters, chars and bytes all differ in
\* number: two clusters, three chars, five bytes
C18_Witness ==
    /\ ret.op = "get_grapheme_boundaries"
    /\ ret.args.text = <<[width |-> 2, extend |-> FALSE],
                         [width |-> 1, extend |-> FALSE],
                         [width |-> 2, extend |-> TRUE]>>
    /\ ret.args.grapheme_position = 1
    /\ ret.out # None
    /\ ret.out[1].curr_idx = 2
    /\ ret.out[1].next_idx = 5

(* C16: after the k-th move_next that returned true, get_current_font_file *)
(* succeeds and returns a font file wrapping the buffer at position k - 1  *)
(* of the snapshot, so the buffers come out once each, in the order of the *)
(* snapshot.                                                               *)
C16_CurrentFileFollowsCursor ==
    (/\ ret.op = "get_current_font_file"
     /\ trace[ret.self] # <<>>
     /\ trace[ret.self][Len(trace[ret.self])])
        => LET k == Len(trace[ret.self])
           IN  /\ ret.hr = S_OK
               /\ ret.out.written
               /\ k <= Len(created[ret.self])
               /\ \A j \in 1..k : trace[ret.self][j]
               /\ fontFiles[ret.out.file].data = created[ret.self][k]

\* the second buffer of a snapshot of two, after the second move_next
C16_Witness ==
    /\ ret.op = "get_current_font_file"
    /\ ret.hr = S_OK
    /\ trace[ret.self] = <<TRUE, TRUE>>
    /\ fontFiles[ret.out.file].data = created[ret.self][2]
    /\ created[ret.self][2] # created[ret.self][1]

\* the position of a cursor: NotStarted lies before index 0
Rank(idx) == IF idx = None THEN 0 - 1 ELSE idx[1]

(* C17: the cursor of an enumerator is monotone: over any step its index   *)
(* does not decrease, every move_next on the enumerator takes it to a      *)
(* strictly greater index (so no index is taken twice), and once it is     *)
(* outside the snapshot's bounds it never is inside them again nor back    *)
(* at NotStarted.                                                          *)
C17_CursorMonotone ==
    [][\A e \in DOMAIN enums :
          /\ e \in DOMAIN enums'
          /\ enums'[e].files = enums[e].files
          /\ Rank(enums'[e].idx) >= Rank(enums[e].idx)
          /\ trace'[e] # trace[e] =>
                 Rank(enums'[e].idx) > Rank(enums[e].idx)
          /\ Rank(enums[e].idx) >= Len(enums[e].files) =>
                 Rank(enums'[e].idx) >= Len(enums'[e].files)
    ]_vars

\* move_next has just taken a cursor from one index past the end of a
\* non-empty snapshot to the next
C17_Witness ==
    /\ ret.op = "move_next"
    /\ enums[ret.self].files # <<>>
    /\ Rank(enums[ret.self].idx) = Len(enums[ret.self].files) + 1
    /\ Len(trace[ret.self]) = Len(enums[ret.self].files) + 2

\* the calls that only read
ReadOps ==
    {"get_current_font_file", "get_reference_key", "get_loader", "analyze",
     "create_stream_from_key", "read_file_fragment", "release_fragment",
     "get_file_size", "get_last_write_time"}

\* the buffer behind the result of the last call, when the result is a new
\* font file, loader or stream; otherwise the result itself
ResultOf(r, files, lds, strs) ==
    IF ~r.out.written THEN <<r.hr>>
    ELSE IF r.op = "get_current_font_file"
         THEN <<r.hr, files[r.out.file].data>>
    ELSE IF r.op = "get_loader"
         THEN <<r.hr, lds[r.out.loader].data>>
    ELSE IF r.op = "create_stream_from_key"
         THEN <<r.hr, strs[r.out.stream].data>>
    ELSE <<r.hr, r.out>>

(* C19: get_current_font_file, get_reference_key, get_loader, analyze,     *)
(* create_stream_from_key, read_file_fragment, release_fragment,           *)
(* get_file_size and get_last_write_time change no state a caller can      *)
(* observe: the store, the buffers, every enumerator's snapshot and cursor *)
(* and every object handed out before stay as they were; so repeating the  *)
(* call with the same arguments gives the same result, and repeated        *)
(* get_current_font_file calls wrap the same buffer.                       *)
C19_ReadsChangeNothing ==
    [][ret'.op \in ReadOps =>
          /\ heap' = heap
          /\ fonts' = fonts
          /\ enums' = enums
          /\ \A f \in DOMAIN fontFiles :
                f \in DOMAIN fontFiles' /\ fontFiles'[f] = fontFiles[f]
          /\ \A l \in DOMAIN loaders :
                l \in DOMAIN loaders' /\ loaders'[l] = loaders[l]
          /\ \A s \in DOMAIN streams :
                s \in DOMAIN streams' /\ streams'[s] = streams[s]
          /\ (/\ ret.op = ret'.op
              /\ ret.self = ret'.self
              /\ ret.args = ret'.args)
             => ResultOf(ret', fontFiles', loaders', streams') =
                    ResultOf(ret, fontFiles, loaders, streams)
    ]_vars

\* the second of two get_current_font_file calls after one move_next
C19_Witness ==
    /\ ret.op = "get_current_font_file"
    /\ ret.hr = S_OK
    /\ ret.out.written
    /\ ret.out.file = 2
    /\ Len(trace[ret.self]) = 1
    /\ enums[ret.self].idx = Some(0)
    /\ fontFiles[2].data = fontFiles[1].data

(* C20: every create_enumerator_from_key call succeeds, whatever its key,  *)
(* and returns a new enumerator over the store's current sequence in the   *)
(* NotStarted state; enumerators have independent cursors: a move_next on  *)
(* one changes neither the snapshot, the cursor nor the past answers of    *)
(* another.                                                                *)
C20_FreshIndependentEnumerators ==
    /\ [](ret.op = "create_enumerator_from_key" =>
            /\ ret.hr = S_OK
            /\ ret.out.written
            /\ ret.out.enumerator = Len(enums)
            /\ enums[ret.out.enumerator] = [files |-> fonts, idx |-> None]
            /\ trace[ret.out.enumerator] = <<>>)
    /\ [][(ret'.op = "create_enumerator_from_key" /\ enums' # enums) =>
            /\ ret'.hr = S_OK
            /\ Len(enums') = Len(enums) + 1
            /\ \A e \in DOMAIN enums :
                  enums'[e] = enums[e] /\ trace'[e] = trace[e]]_vars
    /\ [][\A e \in DOMAIN enums :
            trace'[e] # trace[e] =>
                \A o \in DOMAIN enums \ {e} :
                    /\ enums'[o] = enums[o]
                    /\ trace'[o] = trace[o]
                    /\ get_current_font_file(enums'[o].idx, self_files(o)',
                                             build') =
                       get_current_font_file(enums[o].idx, self_files(o),
                                             build)]_vars

\* two enumerators over the same non-empty snapshot: the first has moved
\* twice, the second has not started
C20_Witness ==
    /\ Len(enums) = 2
    /\ ret.op = "move_next"
    /\ ret.self = 1
    /\ enums[1].files = enums[2].files
    /\ enums[1].files # <<>>
    /\ enums[1].idx = Some(1)
    /\ enums[2].idx = None
    /\ trace[2] = <<>>

(* C21: a failing call leaves the caller's output slot untouched: no call  *)
(* that returns an error or faults writes an output,                       *)
(* create_stream_from_key with a key_size other than the buffer's length   *)
(* writes no stream, and read_file_fragment with a request that reaches    *)
(* past the end of the buffer writes neither the start nor the context.    *)
C21_FailuresWriteNothing ==
    /\ ret.hr # S_OK => ~ret.out.written
    /\ (/\ ret.op = "create_stream_from_key"
        /\ ret.args.key_size # Len(heap[loaders[ret.self].data]))
           => ~ret.out.written
    /\ (/\ ret.op = "read_file_fragment"
        /\ ExceedsBuffer(ret.args.offset, ret.args.length,
                         Len(heap[streams[ret.self].data])))
           => ~ret.out.written

============================================================================
